---- MODULE Spec2Model ----
(***************************************************************************)
(* Model of core_pipeline.py: the four stages of the climate-health        *)
(* pipeline (baseline threshold, heatwave days, excess deaths, early       *)
(* warning benefits) over a small file system.                             *)
(*                                                                         *)
(* Strings are sequences of one-character strings, so that slicing,        *)
(* splitting and suffix tests are computed as Python computes them.        *)
(* A CSV file is a record [header, cols]: the header fields and, per       *)
(* field, the column of values (row r of the table is cols[c][r]).  A      *)
(* DataFrame is a record [columns, data] of the same shape with the        *)
(* default RangeIndex, so that index alignment is alignment by position.   *)
(* All tables of one call have the same number of rows (NaN is not         *)
(* modelled).  Floating point values are modelled by exact rationals:      *)
(* a baseline or threshold value is [num, den], a benefit is an integer    *)
(* count of 1e-10.                                                         *)
(***************************************************************************)
EXTENDS Integers, Sequences, FiniteSets, TLC

\* ------------------------------------------------------------------ bounds
\* Rows (grid cells) of every table.
NRows == 2
\* Largest temperature / day value of an input cell.
MaxVal == 2
\* Most files in the baseline directory.
MaxBaselineFiles == 2
\* Most leaf files of the future tree.
MaxLeaves == 3
\* Most non-FID columns of an ER or heatwave-days table.
MaxCols == 2
\* Calls of one stage with the same arguments.
MaxRuns == 2

\* --------------------------------------------------------------- constants
\* quantile(0.975): 0.975 = QNum / QDen.
QNum == 39
QDen == 40
\* fname[-8:-4]
YearStart == 8
YearStop == 4
\* 5/1e6 and 0.0127/1e6 as integer multiples of 1e-10.
Rate65 == 50000
RateU65 == 127

\* ----------------------------------------------------------------- strings
FID == <<"F", "I", "D">>
Unnamed0 == <<"U", "n", "n", "a", "m", "e", "d", ":", " ", "0">>
Percent975 == <<"P", "e", "r", "c", "e", "n", "t", "9", "7", "5">>
HeatwaveDays == <<"H", "e", "a", "t", "w", "a", "v", "e", "D", "a", "y", "s">>
DotCsv == <<".", "c", "s", "v">>
Underscore == <<"_">>
\* str(0.975), the name of the Series that DataFrame.quantile(0.975) returns
QuantileName == <<"0", ".", "9", "7", "5">>
DeathsPrefix == <<"D", "e", "a", "t", "h", "s", "-">>
EDPrefix == <<"E", "D", "_">>
Pop65Prefix == <<"P", "o", "p", "6", "5", "-">>
PopU65Prefix == <<"P", "o", "p", "U", "6", "5", "-">>
BenefitPrefix == <<"B", "e", "n", "e", "f", "i", "t", "_">>

Max(a, b) == IF a >= b THEN a ELSE b

\* f.endswith(suffix)
EndsWith(s, suffix) ==
    /\ Len(s) >= Len(suffix)
    /\ SubSeq(s, Len(s) - Len(suffix) + 1, Len(s)) = suffix

\* s[-a:-b] for a > b > 0: Python clamps both ends at the start of the string
SliceFromEnd(s, a, b) ==
    SubSeq(s, Max(Len(s) - a, 0) + 1, Max(Len(s) - b, 0))

\* s.split("_")[-1]: the text after the last underscore, all of s without one
LastField(s) ==
    LET us == {i \in 1..Len(s) : s[i] = "_"}
        last == IF us = {} THEN 0 ELSE CHOOSE i \in us : \A j \in us : j <= i
    IN  SubSeq(s, last + 1, Len(s))

\* ------------------------------------------------------------------ tables
NoFile == [absent |-> TRUE]

Rows == 1..NRows

\* the index column a frame written with its index carries: 0, 1, ...
IndexColumn == [r \in Rows |-> r - 1]

\* pd.read_csv: an empty first header field becomes the column "Unnamed: 0"
ReadCsv(file) ==
    [columns |-> [i \in 1..Len(file.header) |->
                     IF file.header[i] = <<>> /\ i = 1 THEN Unnamed0
                     ELSE file.header[i]],
     data    |-> file.cols]

\* DataFrame.to_csv(path, index=False)
ToCsv(df) == [header |-> df.columns, cols |-> df.data]

\* Series.to_csv(path, index=False): the header is the Series' name
SeriesToCsv(name, values) == [header |-> <<name>>, cols |-> <<values>>]

HasColumn(df, name) == \E i \in 1..Len(df.columns) : df.columns[i] = name

\* df[name] for a name the frame has
Column(df, name) ==
    df.data[CHOOSE i \in 1..Len(df.columns) :
               /\ df.columns[i] = name
               /\ \A j \in 1..(i - 1) : df.columns[j] # name]

\* data.rename(columns={old: new})
Rename(df, old, new) ==
    [df EXCEPT !.columns = [i \in 1..Len(df.columns) |->
                               IF df.columns[i] = old THEN new ELSE df.columns[i]]]

\* data.drop(columns=[name])
Drop(df, name) ==
    LET keep == SelectSeq([i \in 1..Len(df.columns) |-> i],
                          LAMBDA i : df.columns[i] # name)
    IN  [columns |-> [k \in 1..Len(keep) |-> df.columns[keep[k]]],
         data    |-> [k \in 1..Len(keep) |-> df.data[keep[k]]]]

\* df[name] = values: replaces the column of that name, appends a new one
SetColumn(df, name, values) ==
    IF HasColumn(df, name)
    THEN [df EXCEPT !.data = [i \in 1..Len(df.columns) |->
                                 IF df.columns[i] = name THEN values ELSE df.data[i]]]
    ELSE [columns |-> Append(df.columns, name), data |-> Append(df.data, values)]

EmptyFrame == [columns |-> <<>>, data |-> <<>>]

\* ------------------------------------------------------------------- state
VARIABLES
    fn,            \* the stage function the caller runs
    pc,            \* "call": about to be called, "loop": inside its loop, "return"
    status,        \* "none" while running, then "ok" or the exception raised
    stdout,        \* the notices printed so far
    baseline_dir,  \* stage 1: the directory listing, <<[name, file], ...>>
    future_dir,    \* stage 2: the leaf files in traversal order
    output_dir,    \* stage 2: the output directory, file name -> file
    files,         \* the single files of the file system, path -> file
    args,          \* the path arguments of the call
    i,             \* the loop position (leaf or column number)
    frames,        \* the frames read at entry, local name -> DataFrame
    df_out,        \* stages 3, 4: the output frame being built
    results        \* what each completed run left behind

vars == <<fn, pc, status, stdout, baseline_dir, future_dir, output_dir, files,
          args, i, frames, df_out, results>>

Paths == {"threshold", "er", "mortality", "heatwave", "pop65", "popu65", "out"}

NoFiles == [p \in Paths |-> NoFile]

\* ------------------------------------------- 1. calculate_baseline_threshold
\* A number read from or written to a baseline or threshold file is the exact
\* rational num / den in lowest terms, den > 0.
R(n) == [num |-> n, den |-> 1]

RECURSIVE GCD(_, _)
GCD(a, b) == IF b = 0 THEN a ELSE GCD(b, a % b)

Abs(n) == IF n < 0 THEN 0 - n ELSE n

RNorm(n, d) ==
    LET g == GCD(Abs(n), d)
    IN  [num |-> n \div g, den |-> d \div g]

RLe(a, b) == a.num * b.den <= b.num * a.den

RECURSIVE Insert(_, _)
Insert(x, s) ==
    IF s = <<>> THEN <<x>>
    ELSE IF RLe(x, Head(s)) THEN <<x>> \o s
    ELSE <<Head(s)>> \o Insert(x, Tail(s))

RECURSIVE Sort(_)
Sort(s) == IF s = <<>> THEN <<>> ELSE Insert(Head(s), Sort(Tail(s)))

\* a + (fr / QDen) * (b - a)
Interpolate(a, b, fr) ==
    RNorm(QDen * a.num * b.den + fr * (b.num * a.den - a.num * b.den),
          QDen * a.den * b.den)

\* numpy's linear interpolation at position q * (n - 1) of the sorted values
Quantile(values) ==
    LET s   == Sort(values)
        pos == QNum * (Len(s) - 1)
        lo  == pos \div QDen
        fr  == pos % QDen
    IN  IF fr = 0 THEN s[lo + 1] ELSE Interpolate(s[lo + 1], s[lo + 2], fr)

\* files = [... for f in os.listdir(baseline_dir) if f.endswith(".csv")]
CsvFiles(dir) == SelectSeq(dir, LAMBDA e : EndsWith(e.name, DotCsv))

RECURSIVE Concat(_)
\* pd.concat(dfs, axis=1): the frames side by side, every column kept
Concat(dfs) ==
    IF dfs = <<>> THEN EmptyFrame
    ELSE LET rest == Concat(Tail(dfs))
         IN  [columns |-> Head(dfs).columns \o rest.columns,
              data    |-> Head(dfs).data \o rest.data]

\* baseline_all.quantile(0.975, axis=1): per row, over all columns of the frame
RowQuantiles(df) ==
    [r \in Rows |-> Quantile([c \in 1..Len(df.data) |-> df.data[c][r]])]

\* percent975 of the directory as the code computes it
Percent975Of(dir) ==
    LET fs  == CsvFiles(dir)
        dfs == [k \in 1..Len(fs) |-> ReadCsv(fs[k].file)]
    IN  RowQuantiles(Concat(dfs))

NameIndex(dir, name) == {k \in 1..Len(dir) : dir[k].name = name}

\* The listings a directory can have once `file` is written under `name`: an
\* existing entry is overwritten in place, a new entry appears anywhere in
\* the listing (os.listdir promises no order).
ListingsAfterWrite(dir, name, file) ==
    IF NameIndex(dir, name) # {}
    THEN {[k \in 1..Len(dir) |->
              IF dir[k].name = name THEN [name |-> name, file |-> file] ELSE dir[k]]}
    ELSE {SubSeq(dir, 1, k) \o <<[name |-> name, file |-> file]>>
              \o SubSeq(dir, k + 1, Len(dir)) : k \in 0..Len(dir)}

BaselineNotice == "Baseline 97.5th percentile saved"

\* What the file at `path` holds now: a path is [dir, name], in the baseline
\* directory or among the single files.
FileAt(path) ==
    IF path.dir = "baseline_dir"
    THEN LET ks == NameIndex(baseline_dir, path.name)
         IN  IF ks = {} THEN NoFile ELSE baseline_dir[CHOOSE k \in ks : TRUE].file
    ELSE files[path.name]

calculate_baseline_threshold ==
    /\ fn = "calculate_baseline_threshold"
    /\ pc = "call"
    /\ IF CsvFiles(baseline_dir) = <<>>
       THEN \* pd.concat([]) raises ValueError: nothing is written
            /\ status' = "ValueError"
            /\ results' = Append(results, [status |-> "ValueError",
                                            out    |-> FileAt(args.output_file)])
            /\ UNCHANGED <<stdout, baseline_dir, files>>
       ELSE LET out == SeriesToCsv(QuantileName, Percent975Of(baseline_dir))
            IN  /\ IF args.output_file.dir = "baseline_dir"
                   THEN /\ baseline_dir' \in ListingsAfterWrite(baseline_dir,
                                                args.output_file.name, out)
                        /\ UNCHANGED files
                   ELSE /\ files' = [files EXCEPT ![args.output_file.name] = out]
                        /\ UNCHANGED baseline_dir
                /\ status' = "ok"
                /\ stdout' = Append(stdout, BaselineNotice)
                /\ results' = Append(results, [status |-> "ok", out |-> out])
    /\ pc' = "return"
    /\ UNCHANGED <<fn, future_dir, output_dir, args, i, frames, df_out>>

\* --------------------------------------------------- 2. count_heatwave_days
KeyErrorFID == "KeyError: 'FID'"
KeyErrorPercent975 == "KeyError: 'Percent975'"
HeatwaveNotice == "Heatwave days results saved"

\* Ge with the comparison strict: a day at the threshold is not counted
GeStrict(temp, thr) == temp * thr.den > thr.num

\* temp >= threshold, the threshold an exact rational
Ge(temp, thr) == temp * thr.den >= thr.num

\* year = fname[-8:-4]
YearOfFile(fname) == SliceFromEnd(fname, YearStart, YearStop)

\* f"{scenario}_{model}_{year}.csv"
OutName(leaf) ==
    leaf.scenario \o Underscore \o leaf.model \o Underscore
        \o YearOfFile(leaf.fname) \o DotCsv

\* data = pd.read_csv(...); data.rename(columns={'Unnamed: 0': 'FID'})
LeafData(leaf) == Rename(ReadCsv(leaf.file), Unnamed0, FID)

\* temps = data.drop(columns=['FID'])
Temps(data) == Drop(data, FID)

\* exceed = temps.ge(threshold['Percent975'], axis=0); counts = exceed.sum(axis=1)
Counts(temps, thr) ==
    [r \in Rows |-> Cardinality({c \in 1..Len(temps.data) : Ge(temps.data[c][r], thr[r])})]

\* out = pd.DataFrame({"FID": FID, "HeatwaveDays": counts})
LeafOut(data, thr) ==
    [columns |-> <<FID, HeatwaveDays>>,
     data    |-> <<Column(data, FID), Counts(Temps(data), thr)>>]

\* LeafStep with a leaf that has no FID column given the row index as its FID
\* instead of raising
LeafStepDefaultFID(leaf, thresh) ==
    LET data == LeafData(leaf)
    IN  IF ~HasColumn(thresh, Percent975) THEN [raised |-> KeyErrorPercent975]
        ELSE [raised |-> "none",
              name   |-> OutName(leaf),
              file   |-> ToCsv([columns |-> <<FID, HeatwaveDays>>,
                                data    |-> <<IF HasColumn(data, FID)
                                              THEN Column(data, FID) ELSE IndexColumn,
                                              Counts(Temps(data),
                                                     Column(thresh, Percent975))>>])]

\* What processing one leaf does: the exception it raises, or the file it writes
LeafStep(leaf, thresh) ==
    LET data == LeafData(leaf)
    IN  IF ~HasColumn(data, FID) THEN [raised |-> KeyErrorFID]
        ELSE IF ~HasColumn(thresh, Percent975) THEN [raised |-> KeyErrorPercent975]
        ELSE [raised |-> "none",
              name   |-> OutName(leaf),
              file   |-> ToCsv(LeafOut(data, Column(thresh, Percent975)))]

\* WriteOut with the file opened for appending: the rows are added to a file
\* of that name
WriteOutAppends(dir, name, file) ==
    [n \in DOMAIN dir \cup {name} |->
        IF n # name THEN dir[n]
        ELSE IF name \in DOMAIN dir
             THEN [header |-> file.header,
                   cols   |-> [c \in 1..Len(file.cols) |-> dir[n].cols[c] \o file.cols[c]]]
             ELSE file]

\* output_dir after out.to_csv(outname): a file of that name is replaced
WriteOut(dir, name, file) ==
    [n \in DOMAIN dir \cup {name} |-> IF n = name THEN file ELSE dir[n]]

\* threshold = pd.read_csv(threshold_file), then the traversal starts
HeatwaveEnter ==
    /\ fn = "count_heatwave_days"
    /\ pc = "call"
    /\ frames' = [threshold |-> ReadCsv(FileAt(args.threshold_file))]
    /\ i' = 1
    /\ pc' = "loop"
    /\ UNCHANGED <<fn, status, stdout, baseline_dir, future_dir, output_dir, files,
                   args, df_out, results>>

\* one pass of the innermost loop body, lines 64-76
HeatwaveLeaf ==
    /\ fn = "count_heatwave_days"
    /\ pc = "loop"
    /\ i <= Len(future_dir)
    /\ LET step == LeafStep(future_dir[i], frames.threshold)
       IN  IF step.raised # "none"
           THEN /\ status' = step.raised
                /\ pc' = "return"
                /\ results' = Append(results, [status |-> step.raised, out |-> output_dir])
                /\ UNCHANGED <<output_dir, i>>
           ELSE /\ output_dir' = WriteOut(output_dir, step.name, step.file)
                /\ i' = i + 1
                /\ UNCHANGED <<status, pc, results>>
    /\ UNCHANGED <<fn, stdout, baseline_dir, future_dir, files, args, frames, df_out>>

\* the loops are exhausted: the completion notice, line 77
HeatwaveFinish ==
    /\ fn = "count_heatwave_days"
    /\ pc = "loop"
    /\ i > Len(future_dir)
    /\ stdout' = Append(stdout, HeatwaveNotice)
    /\ status' = "ok"
    /\ pc' = "return"
    /\ results' = Append(results, [status |-> "ok", out |-> output_dir])
    /\ UNCHANGED <<fn, baseline_dir, future_dir, output_dir, files, args, i,
                   frames, df_out>>

\* ----------------------------------------------- 3. calculate_excess_deaths
KeyErrorDeaths == "KeyError: 'Deaths-<year>'"
EDNotice == "Excess deaths saved"

\* year = col.split("_")[-1]
YearOfColumn(col) == LastField(col)

\* Product with the columns added
ProductAsSum(a, b) == [r \in Rows |-> a[r] + b[r]]

\* ER[col] * D[f"Deaths-{year}"], row by row
Product(a, b) == [r \in Rows |-> a[r] * b[r]]

\* EDStep with a year that has no Deaths column skipped instead of raising
EDStepSkipsMissing(ER, D, out, col) ==
    LET year == LastField(col)
    IN  IF ~HasColumn(D, DeathsPrefix \o year) THEN [raised |-> "none", df |-> out]
        ELSE [raised |-> "none",
              df     |-> SetColumn(out, EDPrefix \o year,
                             [r \in Rows |-> Column(ER, col)[r]
                                                * Column(D, DeathsPrefix \o year)[r]])]

\* EDStep with an ED column that is already there kept as it is
EDStepKeepsFirst(ER, D, out, col) ==
    LET year == LastField(col)
    IN  IF ~HasColumn(D, DeathsPrefix \o year) THEN [raised |-> KeyErrorDeaths]
        ELSE IF HasColumn(out, EDPrefix \o year) THEN [raised |-> "none", df |-> out]
        ELSE [raised |-> "none",
              df     |-> SetColumn(out, EDPrefix \o year,
                             [r \in Rows |-> Column(ER, col)[r]
                                                * Column(D, DeathsPrefix \o year)[r]])]

\* one pass of the loop body, lines 103-105, on the frame built so far
EDStep(ER, D, out, col) ==
    LET year == YearOfColumn(col)
    IN  IF ~HasColumn(D, DeathsPrefix \o year) THEN [raised |-> KeyErrorDeaths]
        ELSE [raised |-> "none",
              df     |-> SetColumn(out, EDPrefix \o year,
                             Product(Column(ER, col), Column(D, DeathsPrefix \o year)))]

\* lines 96-100: both tables are read, df_out gets the ER table's FID column
EDEnter ==
    /\ fn = "calculate_excess_deaths"
    /\ pc = "call"
    /\ LET ER == ReadCsv(files[args.er_file])
           D  == ReadCsv(files[args.mortality_file])
       IN  /\ frames' = [ER |-> ER, D |-> D]
           /\ IF HasColumn(ER, FID)
              THEN /\ df_out' = SetColumn(EmptyFrame, FID, Column(ER, FID))
                   /\ i' = 2      \* ER.columns[1:]
                   /\ pc' = "loop"
                   /\ UNCHANGED <<status, results>>
              ELSE /\ status' = KeyErrorFID
                   /\ pc' = "return"
                   /\ results' = Append(results, [status |-> KeyErrorFID,
                                                   out    |-> files[args.output_file]])
                   /\ UNCHANGED <<df_out, i>>
    /\ UNCHANGED <<fn, stdout, baseline_dir, future_dir, output_dir, files, args>>

EDColumn ==
    /\ fn = "calculate_excess_deaths"
    /\ pc = "loop"
    /\ i <= Len(frames.ER.columns)
    /\ LET step == EDStep(frames.ER, frames.D, df_out, frames.ER.columns[i])
       IN  IF step.raised # "none"
           THEN /\ status' = step.raised
                /\ pc' = "return"
                /\ results' = Append(results, [status |-> step.raised,
                                                out    |-> files[args.output_file]])
                /\ UNCHANGED <<df_out, i>>
           ELSE /\ df_out' = step.df
                /\ i' = i + 1
                /\ UNCHANGED <<status, pc, results>>
    /\ UNCHANGED <<fn, stdout, baseline_dir, future_dir, output_dir, files, args, frames>>

\* lines 107-108: the frame is written once, after the loop
EDFinish ==
    /\ fn = "calculate_excess_deaths"
    /\ pc = "loop"
    /\ i > Len(frames.ER.columns)
    /\ files' = [files EXCEPT ![args.output_file] = ToCsv(df_out)]
    /\ stdout' = Append(stdout, EDNotice)
    /\ status' = "ok"
    /\ pc' = "return"
    /\ results' = Append(results, [status |-> "ok", out |-> ToCsv(df_out)])
    /\ UNCHANGED <<fn, baseline_dir, future_dir, output_dir, args, i, frames, df_out>>

\* -------------------------------------- 4. calculate_early_warning_benefits
KeyErrorPop65 == "KeyError: 'Pop65-<year>'"
KeyErrorPopU65 == "KeyError: 'PopU65-<year>'"
BenefitNotice == "Early warning benefits saved"

\* Benefit with the two rates exchanged
BenefitRatesSwapped(pop65, popU65, days) ==
    [r \in Rows |-> (pop65[r] * days[r]) * RateU65 + (popU65[r] * days[r]) * Rate65]

\* (df65[..] * df_hw[col]) * 5/1e6 + (df_u65[..] * df_hw[col]) * 0.0127/1e6,
\* in units of 1e-10
Benefit(pop65, popU65, days) ==
    [r \in Rows |-> (pop65[r] * days[r]) * Rate65 + (popU65[r] * days[r]) * RateU65]

\* one pass of the loop body, lines 137-141
BenefitStep(hw, p65, pu65, out, col) ==
    LET year == YearOfColumn(col)
    IN  IF ~HasColumn(p65, Pop65Prefix \o year) THEN [raised |-> KeyErrorPop65]
        ELSE IF ~HasColumn(pu65, PopU65Prefix \o year) THEN [raised |-> KeyErrorPopU65]
        ELSE [raised |-> "none",
              df     |-> SetColumn(out, BenefitPrefix \o year,
                             Benefit(Column(p65, Pop65Prefix \o year),
                                     Column(pu65, PopU65Prefix \o year),
                                     Column(hw, col)))]

BenefitEnter ==
    /\ fn = "calculate_early_warning_benefits"
    /\ pc = "call"
    /\ LET hw == ReadCsv(files[args.heatwave_file])
       IN  /\ frames' = [df_hw  |-> hw,
                         df65   |-> ReadCsv(files[args.pop65_file]),
                         df_u65 |-> ReadCsv(files[args.pop_u65_file])]
           /\ IF HasColumn(hw, FID)
              THEN /\ df_out' = SetColumn(EmptyFrame, FID, Column(hw, FID))
                   /\ i' = 2      \* df_hw.columns[1:]
                   /\ pc' = "loop"
                   /\ UNCHANGED <<status, results>>
              ELSE /\ status' = KeyErrorFID
                   /\ pc' = "return"
                   /\ results' = Append(results, [status |-> KeyErrorFID,
                                                   out    |-> files[args.output_file]])
                   /\ UNCHANGED <<df_out, i>>
    /\ UNCHANGED <<fn, stdout, baseline_dir, future_dir, output_dir, files, args>>

BenefitColumn ==
    /\ fn = "calculate_early_warning_benefits"
    /\ pc = "loop"
    /\ i <= Len(frames.df_hw.columns)
    /\ LET step == BenefitStep(frames.df_hw, frames.df65, frames.df_u65, df_out,
                               frames.df_hw.columns[i])
       IN  IF step.raised # "none"
           THEN /\ status' = step.raised
                /\ pc' = "return"
                /\ results' = Append(results, [status |-> step.raised,
                                                out    |-> files[args.output_file]])
                /\ UNCHANGED <<df_out, i>>
           ELSE /\ df_out' = step.df
                /\ i' = i + 1
                /\ UNCHANGED <<status, pc, results>>
    /\ UNCHANGED <<fn, stdout, baseline_dir, future_dir, output_dir, files, args, frames>>

BenefitFinish ==
    /\ fn = "calculate_early_warning_benefits"
    /\ pc = "loop"
    /\ i > Len(frames.df_hw.columns)
    /\ files' = [files EXCEPT ![args.output_file] = ToCsv(df_out)]
    /\ stdout' = Append(stdout, BenefitNotice)
    /\ status' = "ok"
    /\ pc' = "return"
    /\ results' = Append(results, [status |-> "ok", out |-> ToCsv(df_out)])
    /\ UNCHANGED <<fn, baseline_dir, future_dir, output_dir, args, i, frames, df_out>>

\* ---------------------------------------------------------------- the caller
\* No frame outlives a call.
NoFrames == <<>>

\* The caller runs the same function again with the same arguments.
Rerun ==
    /\ pc = "return"
    /\ Len(results) < MaxRuns
    /\ pc' = "call"
    /\ status' = "none"
    /\ i' = 0
    /\ frames' = NoFrames
    /\ df_out' = EmptyFrame
    /\ UNCHANGED <<fn, stdout, baseline_dir, future_dir, output_dir, files, args, results>>

Called(f, a) ==
    /\ fn = f
    /\ args = a
    /\ pc = "call"
    /\ status = "none"
    /\ stdout = <<>>
    /\ i = 0
    /\ frames = NoFrames
    /\ df_out = EmptyFrame
    /\ results = <<>>

\* ------------------------------------------------------------------ inputs
Vals == 0..MaxVal

\* a column of one value, and every column over a set of values
Const(v) == [r \in Rows |-> v]
Columns(vals) == [Rows -> vals]

\* every sequence over S of length lo..hi
SeqsOf(S, lo, hi) == UNION {[1..n -> S] : n \in lo..hi}

Injective(s) == \A a, b \in 1..Len(s) : a # b => s[a] # s[b]

\* --- stage 1: a directory of baseline files
Letters == <<"a", "b", "c", "d", "e">>
CsvName(k) == <<Letters[k]>> \o DotCsv
TxtName == <<"n", ".", "t", "x", "t">>
DayName == <<"d", "1">>
OutCsvName == <<"p", ".", "c", "s", "v">>

RCol(col) == [r \in Rows |-> R(col[r])]

\* a baseline file of one day column, with or without the unnamed index column
BaselineFile(hasIndex, days) ==
    IF hasIndex
    THEN [header |-> <<<<>>, DayName>>, cols |-> <<RCol(IndexColumn), RCol(days)>>]
    ELSE [header |-> <<DayName>>, cols |-> <<RCol(days)>>]

BaselineFiles(days) == {BaselineFile(h, d) : h \in BOOLEAN, d \in days}

\* the listings of at most MaxBaselineFiles .csv files drawn from `fileset`,
\* with or without a file that is no .csv in front
BaselineDirs(fileset) ==
    LET csvs == {[k \in 1..Len(fs) |-> [name |-> CsvName(k), file |-> fs[k]]] :
                    fs \in SeqsOf(fileset, 0, MaxBaselineFiles)}
        txt  == [name |-> TxtName, file |-> BaselineFile(FALSE, Const(0))]
    IN  csvs \cup {<<txt>> \o d : d \in csvs}

\* output_file: outside the baseline directory, a new .csv inside it, or one
\* of the baseline files
BaselineOutputFiles ==
    {[dir |-> "outputs", name |-> "threshold"],
     [dir |-> "baseline_dir", name |-> OutCsvName],
     [dir |-> "baseline_dir", name |-> CsvName(1)]}

InitBaselineWith(dirs, outs) ==
    /\ baseline_dir \in dirs
    /\ \E o \in outs : Called("calculate_baseline_threshold", [output_file |-> o])
    /\ future_dir = <<>>
    /\ output_dir = <<>>
    /\ files = NoFiles

InitBaseline == InitBaselineWith(BaselineDirs(BaselineFiles(Columns(Vals))),
                                 BaselineOutputFiles)

\* --- stage 2: a tree of leaf files and a threshold file
Scenarios == {<<"a">>, <<"a", "_", "b">>}
Models == {<<"c">>, <<"b", "_", "c">>}
FNames == {<<"x", "2", "0", "5", "0", ".", "c", "s", "v">>, <<"y", "2", "0", "5", "0", ".", "c", "s", "v">>}
DayNames == <<<<"d", "1">>, <<"d", "2">>, <<"d", "3">>>>

\* a leaf file: the index column unnamed, named FID, or missing
LeafFile(kind, temps) ==
    LET names == [k \in 1..Len(temps) |-> DayNames[k]]
    IN  CASE kind = "unnamed" -> [header |-> <<<<>>>> \o names,
                                  cols   |-> <<IndexColumn>> \o temps]
          [] kind = "FID"     -> [header |-> <<FID>> \o names,
                                  cols   |-> <<IndexColumn>> \o temps]
          [] OTHER            -> [header |-> names, cols |-> temps]

Leaves(fileset) ==
    {[scenario |-> sc, model |-> m, fname |-> f, file |-> t] :
        sc \in Scenarios, m \in Models, f \in FNames, t \in fileset}

SamePath(a, b) ==
    a.scenario = b.scenario /\ a.model = b.model /\ a.fname = b.fname

\* os.listdir nests: the leaves of one model directory, and the models of one
\* scenario directory, are visited together, in any order
Nested(t) ==
    \A a, b, c \in 1..Len(t) :
        a < b /\ b < c =>
            /\ t[a].scenario = t[c].scenario => t[b].scenario = t[a].scenario
            /\ (t[a].scenario = t[c].scenario /\ t[a].model = t[c].model)
                   => t[b].model = t[a].model

Trees(fileset, most) ==
    {t \in SeqsOf(Leaves(fileset), 0, most) :
        /\ \A a, b \in 1..Len(t) : a # b => ~SamePath(t[a], t[b])
        /\ Nested(t)}

\* a threshold file the caller supplies, its column named Percent975
ThresholdFile(col) == [header |-> <<Percent975>>, cols |-> <<RCol(col)>>]

HeatwaveArgs ==
    [threshold_file |-> [dir |-> "outputs", name |-> "threshold"], chained |-> FALSE]

InitHeatwaveWith(trees, thresholds) ==
    /\ future_dir \in trees
    /\ \E t \in thresholds : files = [NoFiles EXCEPT !["threshold"] = ThresholdFile(t)]
    /\ Called("count_heatwave_days", HeatwaveArgs)
    /\ baseline_dir = <<>>
    /\ output_dir = <<>>

\* the traversal: up to MaxLeaves leaves, each well-formed or without FID
TraversalFiles ==
    {LeafFile(k, <<Const(MaxVal)>>) : k \in {"unnamed", "none"}}

InitTraversal ==
    InitHeatwaveWith(Trees(TraversalFiles, MaxLeaves), {Const(0), Const(MaxVal)})

\* the count: one leaf of two day columns, every threshold
CountFiles ==
    {LeafFile(k, <<c1, Const(v)>>) :
        k \in {"unnamed", "FID"}, c1 \in Columns(Vals), v \in Vals}

InitCounts ==
    InitHeatwaveWith({t \in Trees(CountFiles, 1) :
                         \A k \in 1..Len(t) : /\ t[k].scenario = <<"a">>
                                              /\ t[k].model = <<"c">>
                                              /\ t[k].fname = <<"x", "2", "0", "5", "0", ".", "c", "s", "v">>},
                     Columns(Vals))

InitHeatwave == InitTraversal \/ InitCounts

\* the caller passes stage 1's output_file, unchanged, as threshold_file
ChainHeatwave ==
    /\ fn = "calculate_baseline_threshold"
    /\ pc = "return"
    /\ status = "ok"
    /\ future_dir' \in Trees(TraversalFiles, MaxLeaves)
    /\ fn' = "count_heatwave_days"
    /\ args' = [threshold_file |-> args.output_file, chained |-> TRUE]
    /\ pc' = "call"
    /\ status' = "none"
    /\ results' = <<>>
    /\ UNCHANGED <<stdout, baseline_dir, output_dir, files, i, frames, df_out>>

\* the baseline directories of the pipeline: files of one constant day column
InitPipeline ==
    InitBaselineWith(BaselineDirs({BaselineFile(FALSE, Const(v)) : v \in Vals}),
                     {[dir |-> "outputs", name |-> "threshold"]})

\* --- stage 3: an ER table and a mortality table
Years == {<<"2", "0", "5", "0">>, <<"2", "1", "0", "0">>}
ERNames == {<<"E", "R", "_", "2", "0", "5", "0">>, <<"E", "R", "_", "2", "1", "0", "0">>, <<"E", "R", "_", "r", "c", "p", "4", "5", "_", "2", "1", "0", "0">>, <<"E", "R", "_", "r", "c", "p", "8", "5", "_", "2", "1", "0", "0">>}

\* a table of FID and the named columns: the first column takes every value,
\* the others are constant
YearTables(names, vals) ==
    {[header |-> <<FID>> \o ns,
      cols   |-> <<IndexColumn>> \o [k \in 1..Len(ns) |-> IF k = 1 THEN c1 ELSE Const(v)]] :
        ns \in {q \in SeqsOf(names, 0, MaxCols) : Injective(q)},
        c1 \in Columns(vals), v \in vals}

\* a table of FID and one column per year of `years`, in the order 2050, 2100
PerYearTable(prefix, years, col) ==
    LET ys == SelectSeq(<<<<"2", "0", "5", "0">>, <<"2", "1", "0", "0">>>>, LAMBDA y : y \in years)
    IN  [header |-> <<FID>> \o [k \in 1..Len(ys) |-> prefix \o ys[k]],
         cols   |-> <<IndexColumn>> \o [k \in 1..Len(ys) |-> [r \in Rows |-> col[r] + k]]]

PerYearTables(prefix, yearsets) ==
    {PerYearTable(prefix, ys, c) : ys \in yearsets, c \in {IndexColumn, Const(MaxVal)}}

InitEDWith(ers, outs) ==
    /\ \E er \in ers, d \in PerYearTables(DeathsPrefix, SUBSET Years) :
           files = [NoFiles EXCEPT !["er"] = er, !["mortality"] = d]
    /\ \E o \in outs : Called("calculate_excess_deaths",
                              [er_file |-> "er", mortality_file |-> "mortality",
                               output_file |-> o])
    /\ baseline_dir = <<>>
    /\ future_dir = <<>>
    /\ output_dir = <<>>

InitED == InitEDWith(YearTables(ERNames, Vals), {"out"})

\* --- stage 4: a heatwave-days table and two population tables
HWNames == {<<"H", "e", "a", "t", "w", "a", "v", "e", "D", "a", "y", "s", "_", "2", "0", "5", "0">>, <<"H", "e", "a", "t", "w", "a", "v", "e", "D", "a", "y", "s", "_", "2", "1", "0", "0">>, <<"a", "_", "c", "_", "2", "1", "0", "0">>}

InitBenefitWith(hws) ==
    /\ \E hw \in hws,
          p65 \in PerYearTables(Pop65Prefix, {Years, {<<"2", "0", "5", "0">>}}),
          pu65 \in PerYearTables(PopU65Prefix, {Years, {<<"2", "0", "5", "0">>}}) :
           files = [NoFiles EXCEPT !["heatwave"] = hw, !["pop65"] = p65, !["popu65"] = pu65]
    /\ Called("calculate_early_warning_benefits",
              [heatwave_file |-> "heatwave", pop65_file |-> "pop65",
               pop_u65_file |-> "popu65", output_file |-> "out"])
    /\ baseline_dir = <<>>
    /\ future_dir = <<>>
    /\ output_dir = <<>>

InitBenefit == InitBenefitWith(YearTables(HWNames, Vals))

\* ---------------------------------------------------------- specifications
NextBaseline == calculate_baseline_threshold

NextHeatwave == HeatwaveEnter \/ HeatwaveLeaf \/ HeatwaveFinish

NextED == EDEnter \/ EDColumn \/ EDFinish

NextBenefit == BenefitEnter \/ BenefitColumn \/ BenefitFinish

\* one stage, called once
SpecBaseline == InitBaseline /\ [][NextBaseline]_vars
SpecHeatwave == InitHeatwave /\ [][NextHeatwave]_vars
SpecED == InitED /\ [][NextED]_vars
SpecBenefit == InitBenefit /\ [][NextBenefit]_vars

\* stage 1, then stage 2 on its output
SpecPipeline == InitPipeline /\ [][NextBaseline \/ ChainHeatwave \/ NextHeatwave]_vars

\* any stage, called again with the same arguments; the output file of
\* stages 1 and 3 may be one of the inputs
Init ==
    \/ InitBaselineWith(BaselineDirs(BaselineFiles({Const(v) : v \in Vals}
                                                        \cup {IndexColumn})),
                        BaselineOutputFiles)
    \/ InitHeatwave
    \/ InitEDWith(YearTables(ERNames, {0, MaxVal}), {"out", "er", "mortality"})
    \/ InitBenefitWith(YearTables(HWNames, {0, MaxVal}))

Next == NextBaseline \/ NextHeatwave \/ NextED \/ NextBenefit \/ Rerun

Spec == Init /\ [][Next]_vars

\* ------------------------------------------------------------------ claims
InHeatwave == fn = "count_heatwave_days" /\ pc \in {"loop", "return"}
Raised == status \notin {"none", "ok"}

\* C1: the table calculate_baseline_threshold writes, passed unchanged as
\* threshold_file, has the column Percent975, so that the lookup
\* threshold['Percent975'] of count_heatwave_days does not fail.
C1_BaselineOutputFeedsHeatwave ==
    (InHeatwave /\ args.chained) => status # KeyErrorPercent975

\* The temperature columns of a leaf file as it lies on disk: every column
\* but the index column (unnamed, or named FID).
TempColumnsOf(file) ==
    {c \in 1..Len(file.header) :
        /\ ~(c = 1 /\ file.header[c] = <<>>)
        /\ file.header[c] # FID}

\* the days of row r of `file` at or above the threshold of row r
DaysAtOrAbove(file, thr, r) ==
    {c \in TempColumnsOf(file) : file.cols[c][r] * thr[r].den >= thr[r].num}

LastLeaf == future_dir[i - 1]
LastOut == output_dir[OutName(LastLeaf)]
SuppliedThreshold == files["threshold"].cols[1]

\* C2: for the leaf just processed, HeatwaveDays of every row r is the number
\* of temperature columns (all but FID) whose value in row r is at least the
\* threshold at row position r; the FID column is carried over as it is.
C2_HeatwaveDaysCount ==
    (InHeatwave /\ ~args.chained /\ i >= 2) =>
        /\ LastOut.header = <<FID, HeatwaveDays>>
        /\ \A r \in Rows :
              /\ LastOut.cols[2][r]
                    = Cardinality(DaysAtOrAbove(LastLeaf.file, SuppliedThreshold, r))
              /\ LastOut.cols[1][r] = LastLeaf.file.cols[1][r]

\* a row with one day exactly at the threshold (counted), one day one below
\* it (not counted) and an FID at or above the threshold (not counted)
C2_Witness ==
    /\ InHeatwave /\ ~args.chained /\ i >= 2
    /\ \E r \in Rows :
          LET thr == SuppliedThreshold[r]
              f   == LastLeaf.file
          IN  /\ thr.den = 1
              /\ \E c, d \in TempColumnsOf(f) :
                    f.cols[c][r] = thr.num /\ f.cols[d][r] = thr.num - 1
              /\ f.cols[1][r] >= thr.num
              /\ LastOut.cols[2][r] = 1

\* C3: after a complete traversal there is one output file per leaf file: no
\* two leaves wrote the same output file name.
C3_OneOutputPerLeaf ==
    (InHeatwave /\ pc = "return" /\ status = "ok") =>
        Cardinality(DOMAIN output_dir) = Len(future_dir)

\* a leaf file that has no FID column once read: its first column is named,
\* and no column is named FID
NoFID(file) ==
    /\ \A c \in 1..Len(file.header) : file.header[c] # FID
    /\ (Len(file.header) = 0 \/ file.header[1] # <<>>)

\* C4 (state): when the traversal has raised, it raised at the first leaf
\* without FID, the output directory holds exactly the files of the leaves
\* before it, and no completion notice was printed; a traversal that ended
\* well met no such leaf.
C4_AbortedTraversal ==
    /\ (InHeatwave /\ ~args.chained /\ Raised) =>
          /\ pc = "return"
          /\ status = KeyErrorFID
          /\ i \in 1..Len(future_dir)
          /\ NoFID(future_dir[i].file)
          /\ \A k \in 1..(i - 1) : ~NoFID(future_dir[k].file)
          /\ DOMAIN output_dir = {OutName(future_dir[k]) : k \in 1..(i - 1)}
          /\ stdout = <<>>
    /\ (InHeatwave /\ ~args.chained /\ status = "ok") =>
          \A k \in 1..Len(future_dir) : ~NoFID(future_dir[k].file)

\* C4: a failure partway leaves the outputs written before it unchanged,
\* writes nothing for the failing leaf or any later one, prints no completion
\* notice, and the error reaches the caller.
C4_FailurePartway ==
    /\ []C4_AbortedTraversal
    /\ [][(fn = "count_heatwave_days" /\ (Raised \/ Raised'))
              => (output_dir' = output_dir /\ stdout' = stdout /\ i' = i)]_vars

\* the traversal raised at its second leaf, with a third one behind it
C4_Witness ==
    /\ InHeatwave /\ ~args.chained /\ Raised
    /\ i = 2
    /\ Len(future_dir) = 3
    /\ Cardinality(DOMAIN output_dir) = 1

\* The year suffix of a column name, said without splitting: the one suffix
\* that holds no underscore and starts the name or follows an underscore.
YearSuffix(name) ==
    CHOOSE s \in {SubSeq(name, k, Len(name)) : k \in 1..(Len(name) + 1)} :
        /\ \A j \in 1..Len(s) : s[j] # "_"
        /\ (Len(s) = Len(name) \/ name[Len(name) - Len(s)] = "_")

\* the column of `file` under the header field `name`
FileColumn(file, name) ==
    file.cols[CHOOSE k \in 1..Len(file.header) : file.header[k] = name]

HasField(file, name) == \E k \in 1..Len(file.header) : file.header[k] = name

\* no later column of the header has the year suffix of column c
LastOfItsYear(header, c) ==
    \A d \in (c + 1)..Len(header) : YearSuffix(header[d]) # YearSuffix(header[c])

EDReturned == fn = "calculate_excess_deaths" /\ pc = "return"

\* ED_y of the written table is the product of ER column c and Deaths-y
EDColumnIsProductOf(c) ==
    LET y == YearSuffix(files["er"].header[c])
    IN  /\ HasField(files["out"], EDPrefix \o y)
        /\ \A r \in Rows :
              FileColumn(files["out"], EDPrefix \o y)[r]
                  = files["er"].cols[c][r]
                        * FileColumn(files["mortality"], DeathsPrefix \o y)[r]

\* C5 as stated: every non-FID column c of the ER table, of year suffix y,
\* has ED_y[r] = ER[c][r] * D['Deaths-y'][r] in the written table, and the
\* FID column is the ER table's.
C5_EveryColumnProduct ==
    (EDReturned /\ status = "ok") =>
        /\ FileColumn(files["out"], FID) = files["er"].cols[1]
        /\ \A c \in 2..Len(files["er"].header) : EDColumnIsProductOf(c)

\* C5 as amended: every non-FID column c of the ER table that is the last one
\* of its year suffix y has ED_y[r] = ER[c][r] * D['Deaths-y'][r] in the
\* written table, and the FID column is the ER table's.
C5_LastColumnProduct ==
    (EDReturned /\ status = "ok") =>
        /\ FileColumn(files["out"], FID) = files["er"].cols[1]
        /\ \A c \in 2..Len(files["er"].header) :
              LastOfItsYear(files["er"].header, c) => EDColumnIsProductOf(c)

\* two ER columns of two years were multiplied, one product being 2 * 3
C5_Witness ==
    /\ EDReturned /\ status = "ok"
    /\ Len(files["er"].header) = 3
    /\ Len(files["out"].header) = 3
    /\ \E r \in Rows : files["er"].cols[2][r] = 2 /\ files["out"].cols[2][r] = 6

\* an ER column whose year has no Deaths column in the mortality table
MissingDeaths ==
    \E c \in 2..Len(files["er"].header) :
        ~HasField(files["mortality"], DeathsPrefix \o YearSuffix(files["er"].header[c]))

\* C7: when some ER column's year has no Deaths column, the call ends in the
\* lookup error and the output file is never written, wherever the column is.
C7_MissingDeathsWritesNothing ==
    (fn = "calculate_excess_deaths" /\ MissingDeaths) =>
        /\ files["out"] = NoFile
        /\ stdout = <<>>
        /\ pc = "return" => status = KeyErrorDeaths

\* the lookup failed after a first product had been computed
C7_Witness ==
    /\ EDReturned /\ status = KeyErrorDeaths
    /\ i = 3
    /\ Len(df_out.columns) = 2
    /\ files["out"] = NoFile

\* C10 as stated: the written table has one ED column per non-FID column of
\* the ER table.
C10_OneColumnPerERColumn ==
    (EDReturned /\ status = "ok") =>
        Len(files["out"].header) = Len(files["er"].header)

\* C10 as amended: the written table has one ED column per distinct year
\* suffix of the ER table's non-FID columns; ER columns of one year suffix
\* write the same ED column, which holds the product of the last of them.
C10_OneColumnPerYear ==
    (EDReturned /\ status = "ok") =>
        LET out == files["out"].header
            er  == files["er"].header
        IN  /\ Injective(out)
            /\ {out[k] : k \in 1..Len(out)}
                 = {FID} \cup {EDPrefix \o YearSuffix(er[c]) : c \in 2..Len(er)}
            /\ \A c, d \in 2..Len(er) :
                  (c < d /\ YearSuffix(er[c]) = YearSuffix(er[d])
                         /\ LastOfItsYear(er, d)) => EDColumnIsProductOf(d)

\* two ER columns of the year 2100 with different products left one column
C10_Witness ==
    /\ EDReturned /\ status = "ok"
    /\ Len(files["er"].header) = 3
    /\ Len(files["out"].header) = 2
    /\ files["er"].cols[2] # files["er"].cols[3]
    /\ \E r \in Rows : files["out"].cols[2][r] # 0

BenefitReturned == fn = "calculate_early_warning_benefits" /\ pc = "return"

\* Benefit_y of the written table, in units of 1e-10, for heatwave column c
BenefitColumnIsFormulaOf(c) ==
    LET y == YearSuffix(files["heatwave"].header[c])
    IN  /\ HasField(files["out"], BenefitPrefix \o y)
        /\ \A r \in Rows :
              FileColumn(files["out"], BenefitPrefix \o y)[r]
                  = FileColumn(files["pop65"], Pop65Prefix \o y)[r]
                        * files["heatwave"].cols[c][r] * 50000
                    + FileColumn(files["popu65"], PopU65Prefix \o y)[r]
                        * files["heatwave"].cols[c][r] * 127

\* C6 as stated: every non-FID column c of the heatwave-days table, of year
\* suffix y, has Benefit_y[r] * 10^10
\*   = Pop65-y[r] * c[r] * 50000 + PopU65-y[r] * c[r] * 127.
C6_EveryColumnBenefit ==
    (BenefitReturned /\ status = "ok") =>
        \A c \in 2..Len(files["heatwave"].header) : BenefitColumnIsFormulaOf(c)

\* C6 as amended: the same, for every non-FID column c that is the last one
\* of its year suffix.
C6_LastColumnBenefit ==
    (BenefitReturned /\ status = "ok") =>
        \A c \in 2..Len(files["heatwave"].header) :
            LastOfItsYear(files["heatwave"].header, c) => BenefitColumnIsFormulaOf(c)

\* a benefit of 1 * 2 days * 50000 + 3 * 2 days * 127 was written
C6_Witness ==
    /\ BenefitReturned /\ status = "ok"
    /\ Len(files["heatwave"].header) = 2
    /\ \E r \in Rows :
          /\ files["heatwave"].cols[2][r] = 2
          /\ files["pop65"].cols[2][r] = 1
          /\ files["popu65"].cols[2][r] = 3
          /\ files["out"].cols[2][r] = 100762

BaselineReturned == fn = "calculate_baseline_threshold" /\ pc = "return"

\* the cells <<file, column>> of the baseline temperatures: every column but
\* the index column, of every .csv file of the directory
BaselineCells ==
    UNION {{<<k, c>> : c \in TempColumnsOf(baseline_dir[k].file)} :
              k \in {j \in 1..Len(baseline_dir) : EndsWith(baseline_dir[j].name, DotCsv)}}

TempAt(r, cell) == baseline_dir[cell[1]].file.cols[cell[2]][r].num

\* q is the 97.5th percentile of the cells under linear interpolation: with
\* the cells in ascending order s[1..n], the value at position 0.975 * (n - 1)
IsPercentile975(q, r, cells) ==
    LET n == Cardinality(cells)
    IN  \E s \in [1..n -> cells] :
           /\ \A a, b \in 1..n : a # b => s[a] # s[b]
           /\ \A a \in 1..(n - 1) : TempAt(r, s[a]) <= TempAt(r, s[a + 1])
           /\ LET lo == (39 * (n - 1)) \div 40
                  fr == (39 * (n - 1)) % 40
                  lower == TempAt(r, s[lo + 1])
                  upper == IF fr = 0 THEN lower ELSE TempAt(r, s[lo + 2])
              IN  q.num * 40 = q.den * (40 * lower + fr * (upper - lower))

\* C8: the threshold written for each row is the 97.5th percentile (linear
\* interpolation) of exactly that row's baseline temperatures across all the
\* baseline files.
C8_PercentileOfTemperatures ==
    (BaselineReturned /\ status = "ok" /\ args.output_file.dir = "outputs") =>
        \A r \in Rows :
            IsPercentile975(files["threshold"].cols[1][r], r, BaselineCells)

\* a stage's output paths are among the paths it reads
ReadsItsOutput ==
    \/ fn = "calculate_baseline_threshold" /\ args.output_file.dir = "baseline_dir"
    \/ fn = "calculate_excess_deaths"
          /\ args.output_file \in {args.er_file, args.mortality_file}

\* C9 as stated: a second run with the same arguments ends as the first did
\* and leaves the same output tables.
C9_SecondRunSame ==
    Len(results) >= 2 => results[2] = results[1]

\* C9 as amended: a second run with the same arguments ends as the first did
\* and leaves the same output tables, provided the stage's output path is
\* neither one of its input files nor inside its input directory.
C9_SecondRunSameApart ==
    (Len(results) >= 2 /\ ~ReadsItsOutput) => results[2] = results[1]

\* a second traversal has rewritten two output files
C9_Witness ==
    /\ fn = "count_heatwave_days"
    /\ Len(results) = 2
    /\ status = "ok"
    /\ Cardinality(DOMAIN output_dir) = 2

====
